---------------------------- MODULE Spec2Model ----------------------------
(***************************************************************************)
(* Resonator-spectroscopy outcome classification                           *)
(* (qualibration_graphs/superconducting/calibration_utils/                 *)
(*  resonator_spectroscopy/analysis.py).                                   *)
(*                                                                         *)
(* Numbers are fixed-point integers:                                       *)
(*   snr, asymmetry, skewness, distorted fractions : tenths                *)
(*   nrmse, r_squared                              : hundredths            *)
(*   fwhm, sweep_span, frequencies                 : units of 1e5 Hz       *)
(* so fwhm / sweep_span > fraction reads fwhm * 10 > fraction * sweep_span. *)
(* The value grids below hold the thresholds themselves and values on both *)
(* sides of them; no grid value lies within a rounding error of a          *)
(* threshold other than the threshold itself, so the float comparisons of  *)
(* the source and the integer comparisons here agree on the grid.          *)
(***************************************************************************)
EXTENDS Integers, Sequences, FiniteSets, TLC

VARIABLES
    pc,           \* control location of the run
    metrics,      \* argument of a direct call of _determine_resonator_outcome
    kwargs,       \* keyword arguments of that call
    result,       \* what the call returned, or the exception it raised
    fit,          \* the fit dataset of the pipeline
    fitters,      \* qubit name -> S21Resonator (its quality_metrics)
    circle_fit,   \* fit_results of circle_fit_s21_resonator_model (ordered)
    qubit_idx,    \* position of the loop of _extract_and_validate_fit_parameters
    qubit_name,   \* qubit of the last call of _extract_qubit_fit_metrics, "" before it
    fit_metrics,  \* metrics extracted for the current qubit
    outcomes,     \* the list `outcomes`
    fit_results,  \* the dict `fit_results` (insertion-ordered)
    emitted,      \* lines passed to log_callable so far
    raised,       \* exception that ended the pipeline run, or NoException
    peaks_dips_fit  \* the fit dataset as peaks_dips returned it (history)

vars == <<pc, metrics, kwargs, result, fit, fitters, circle_fit, qubit_idx,
          qubit_name, fit_metrics, outcomes, fit_results, emitted, raised,
          peaks_dips_fit>>

-----------------------------------------------------------------------------
(* Analysis constants, analysis.py lines 17-26 *)

SNR_MIN == 25
SNR_DISTORTED == 50
ASYMMETRY_MIN == 4
ASYMMETRY_MAX == 25
SKEWNESS_MAX == 15
DISTORTED_FRACTION_LOW_SNR == 2
DISTORTED_FRACTION_HIGH_SNR == 3
FWHM_ABSOLUTE_THRESHOLD_HZ == 10
NRMSE_THRESHOLD == 14
R_SQUARED_THRESHOLD == 90

-----------------------------------------------------------------------------
(* Outcome strings returned by _determine_resonator_outcome *)

Successful == "successful"
LowSnr == "The SNR isn't large enough, consider increasing the number of shots"
Artifact == "OPX bandwidth artifact detected, check your experiment bandwidth settings"
SeveralPeaks == "Several peaks were detected"
NoPeaksLowSnr == "The SNR isn't large enough, consider increasing the number of shots and ensure you are looking at the correct frequency range"
NoPeaks == "No peaks were detected, consider changing the frequency range"
ShapeDistorted == "The peak shape is distorted"
LowSnrDistorted == "The SNR isn't large enough and the peak shape is distorted"
DistortedPeak == "Distorted peak detected"

\* exceptions _determine_resonator_outcome can end with, as values
ZeroDivisionError == "ZeroDivisionError"
TypeError == "TypeError"

Abs(x) == IF x < 0 THEN -x ELSE x

-----------------------------------------------------------------------------
(* _is_peak_shape_distorted, lines 378-382 (metrics are never None here) *)

_is_peak_shape_distorted(asymmetry, skewness, asymmetry_min, asymmetry_max, skewness_max) ==
    LET asymmetry_bad == asymmetry < asymmetry_min \/ asymmetry > asymmetry_max
        skewness_bad == Abs(skewness) > skewness_max
    IN  asymmetry_bad \/ skewness_bad

\* mutant: the guard lets a zero sweep span through to the division
RelativeWidthGuard_NonNegative(sweep_span) == sweep_span >= 0

(* the left operand of the `and` of line 423: the division on its right is
   evaluated only when it is true *)
RelativeWidthGuard(sweep_span) == sweep_span > 0

(* fwhm / sweep_span raises ZeroDivisionError when it is evaluated with a
   zero divisor *)
_is_peak_too_wide_raises(fwhm, sweep_span) ==
    RelativeWidthGuard(sweep_span) /\ sweep_span = 0

\* mutant: the absolute width is not checked
_is_peak_too_wide_RelativeOnly(fwhm, sweep_span, snr, snr_distorted, distorted_fraction_low_snr, distorted_fraction_high_snr, fwhm_absolute_threshold) ==
    LET distorted_fraction ==
            IF snr < snr_distorted THEN distorted_fraction_low_snr
                                   ELSE distorted_fraction_high_snr
    IN  sweep_span > 0 /\ fwhm * 10 > distorted_fraction * sweep_span

\* mutant: a width equal to the allowed fraction of the span counts as too wide
_is_peak_too_wide_AtFraction(fwhm, sweep_span, snr, snr_distorted, distorted_fraction_low_snr, distorted_fraction_high_snr, fwhm_absolute_threshold) ==
    LET distorted_fraction ==
            IF snr < snr_distorted THEN distorted_fraction_low_snr
                                   ELSE distorted_fraction_high_snr
    IN  \/ sweep_span > 0 /\ fwhm * 10 >= distorted_fraction * sweep_span
        \/ fwhm > fwhm_absolute_threshold

\* mutant: a zero sweep span counts as too wide
_is_peak_too_wide_ZeroSpanWide(fwhm, sweep_span, snr, snr_distorted, distorted_fraction_low_snr, distorted_fraction_high_snr, fwhm_absolute_threshold) ==
    LET distorted_fraction ==
            IF snr < snr_distorted THEN distorted_fraction_low_snr
                                   ELSE distorted_fraction_high_snr
    IN  \/ sweep_span = 0
        \/ fwhm * 10 > distorted_fraction * sweep_span
        \/ fwhm > fwhm_absolute_threshold

(* _is_peak_too_wide, lines 419-428 *)
_is_peak_too_wide(fwhm, sweep_span, snr, snr_distorted, distorted_fraction_low_snr, distorted_fraction_high_snr, fwhm_absolute_threshold) ==
    LET distorted_fraction ==
            IF snr < snr_distorted THEN distorted_fraction_low_snr
                                   ELSE distorted_fraction_high_snr
        relative_width_bad ==
            RelativeWidthGuard(sweep_span)
            /\ fwhm * 10 > distorted_fraction * sweep_span
        absolute_width_bad == fwhm > fwhm_absolute_threshold
    IN  relative_width_bad \/ absolute_width_bad

\* mutant: the zero-peaks branch tests the SNR against snr_distorted
PeakChecks_InnerSnrDistorted(m, snr_min, snr_distorted, asymmetry_min, asymmetry_max, skewness_max, distorted_fraction_low_snr, distorted_fraction_high_snr, fwhm_absolute_threshold) ==
    IF m.num_peaks > 1
        THEN SeveralPeaks
    ELSE IF m.num_peaks = 0
        THEN (IF m.snr < snr_distorted THEN NoPeaksLowSnr ELSE NoPeaks)
    ELSE IF _is_peak_shape_distorted(m.asymmetry, m.skewness, asymmetry_min, asymmetry_max, skewness_max)
        THEN ShapeDistorted
    ELSE IF _is_peak_too_wide_raises(m.fwhm, m.sweep_span)
        THEN ZeroDivisionError
    ELSE IF _is_peak_too_wide(m.fwhm, m.sweep_span, m.snr, snr_distorted, distorted_fraction_low_snr, distorted_fraction_high_snr, fwhm_absolute_threshold)
        THEN (IF m.snr < snr_distorted THEN LowSnrDistorted ELSE DistortedPeak)
    ELSE Successful

\* the checks of lines 322-347, after the fit, SNR and artifact checks
PeakChecks(m, snr_min, snr_distorted, asymmetry_min, asymmetry_max, skewness_max, distorted_fraction_low_snr, distorted_fraction_high_snr, fwhm_absolute_threshold) ==
    IF m.num_peaks > 1
        THEN SeveralPeaks
    ELSE IF m.num_peaks = 0
        THEN (IF m.snr < snr_min THEN NoPeaksLowSnr ELSE NoPeaks)
    ELSE IF _is_peak_shape_distorted(m.asymmetry, m.skewness, asymmetry_min, asymmetry_max, skewness_max)
        THEN ShapeDistorted
    ELSE IF _is_peak_too_wide_raises(m.fwhm, m.sweep_span)
        THEN ZeroDivisionError
    ELSE IF _is_peak_too_wide(m.fwhm, m.sweep_span, m.snr, snr_distorted, distorted_fraction_low_snr, distorted_fraction_high_snr, fwhm_absolute_threshold)
        THEN (IF m.snr < snr_distorted THEN LowSnrDistorted ELSE DistortedPeak)
    ELSE Successful

\* mutant: the SNR is checked before the quality of the circle fit
_determine_resonator_outcome_SnrFirst(m, snr_min, snr_distorted, asymmetry_min, asymmetry_max, skewness_max, distorted_fraction_low_snr, distorted_fraction_high_snr, fwhm_absolute_threshold) ==
    IF m.snr < snr_min
        THEN LowSnr
    ELSE IF m.r_squared > R_SQUARED_THRESHOLD /\ m.nrmse < NRMSE_THRESHOLD
        THEN Successful
    ELSE IF m.opx_bandwidth_artifact
        THEN Artifact
    ELSE PeakChecks(m, snr_min, snr_distorted, asymmetry_min, asymmetry_max, skewness_max, distorted_fraction_low_snr, distorted_fraction_high_snr, fwhm_absolute_threshold)

\* mutant: the artifact flag is checked before the SNR
_determine_resonator_outcome_ArtifactFirst(m, snr_min, snr_distorted, asymmetry_min, asymmetry_max, skewness_max, distorted_fraction_low_snr, distorted_fraction_high_snr, fwhm_absolute_threshold) ==
    IF m.r_squared > R_SQUARED_THRESHOLD /\ m.nrmse < NRMSE_THRESHOLD
        THEN Successful
    ELSE IF m.opx_bandwidth_artifact
        THEN Artifact
    ELSE IF m.snr < snr_min
        THEN LowSnr
    ELSE PeakChecks(m, snr_min, snr_distorted, asymmetry_min, asymmetry_max, skewness_max, distorted_fraction_low_snr, distorted_fraction_high_snr, fwhm_absolute_threshold)

\* mutant: the peak count is checked before the artifact flag
_determine_resonator_outcome_PeaksFirst(m, snr_min, snr_distorted, asymmetry_min, asymmetry_max, skewness_max, distorted_fraction_low_snr, distorted_fraction_high_snr, fwhm_absolute_threshold) ==
    IF m.r_squared > R_SQUARED_THRESHOLD /\ m.nrmse < NRMSE_THRESHOLD
        THEN Successful
    ELSE IF m.snr < snr_min
        THEN LowSnr
    ELSE IF m.num_peaks > 1
        THEN SeveralPeaks
    ELSE IF m.opx_bandwidth_artifact
        THEN Artifact
    ELSE PeakChecks(m, snr_min, snr_distorted, asymmetry_min, asymmetry_max, skewness_max, distorted_fraction_low_snr, distorted_fraction_high_snr, fwhm_absolute_threshold)

(* _determine_resonator_outcome, lines 300-347.  m is the metrics dict. *)
_determine_resonator_outcome(m, snr_min, snr_distorted, asymmetry_min, asymmetry_max, skewness_max, distorted_fraction_low_snr, distorted_fraction_high_snr, fwhm_absolute_threshold) ==
    IF m.r_squared > R_SQUARED_THRESHOLD /\ m.nrmse < NRMSE_THRESHOLD
        THEN Successful
    ELSE IF m.snr < snr_min
        THEN LowSnr
    ELSE IF m.opx_bandwidth_artifact
        THEN Artifact
    ELSE PeakChecks(m, snr_min, snr_distorted, asymmetry_min, asymmetry_max, skewness_max, distorted_fraction_low_snr, distorted_fraction_high_snr, fwhm_absolute_threshold)

-----------------------------------------------------------------------------
(* Calling _determine_resonator_outcome: its signature, lines 260-270 *)

\* the keyword parameters the signature declares
ParameterNames ==
    {"snr_min", "snr_distorted", "asymmetry_min", "asymmetry_max",
     "skewness_max", "distorted_fraction_low_snr",
     "distorted_fraction_high_snr", "fwhm_absolute_threshold"}

\* their default values
ParameterDefaults ==
    [snr_min |-> SNR_MIN,
     snr_distorted |-> SNR_DISTORTED,
     asymmetry_min |-> ASYMMETRY_MIN,
     asymmetry_max |-> ASYMMETRY_MAX,
     skewness_max |-> SKEWNESS_MAX,
     distorted_fraction_low_snr |-> DISTORTED_FRACTION_LOW_SNR,
     distorted_fraction_high_snr |-> DISTORTED_FRACTION_HIGH_SNR,
     fwhm_absolute_threshold |-> FWHM_ABSOLUTE_THRESHOLD_HZ]

\* mutant: the caller's values are dropped
BindParameters_DefaultsOnly(kw) == ParameterDefaults

\* a parameter takes the caller's value when one is passed, else its default
BindParameters(kw) ==
    [p \in ParameterNames |->
        IF p \in DOMAIN kw THEN kw[p] ELSE ParameterDefaults[p]]

\* Python rejects a keyword the signature does not declare
UnexpectedKeyword(kw) == \E k \in DOMAIN kw : k \notin ParameterNames

\* _determine_resonator_outcome(m, **kw): the value returned or the
\* exception raised
CallDetermineOutcome(m, kw) ==
    IF UnexpectedKeyword(kw) THEN TypeError
    ELSE LET p == BindParameters(kw)
         IN _determine_resonator_outcome(m, p.snr_min, p.snr_distorted,
                p.asymmetry_min, p.asymmetry_max, p.skewness_max,
                p.distorted_fraction_low_snr, p.distorted_fraction_high_snr,
                p.fwhm_absolute_threshold)

Exceptions == {ZeroDivisionError, TypeError}

-----------------------------------------------------------------------------
(* Bounded inputs of a direct call *)

\* at most this many keyword arguments in one call (or all eight declared)
MaxOverrides == 1

\* float("nan") as the snr of a metrics record: every test the classifier
\* makes on snr is snr < x (lines 315, 327, 342, 420), which is False for NaN
\* as it is for a value above every threshold
NaN == 2000000

RSquaredGrid == {90, 95}
NrmseGrid == {5, 14}
SnrGrid == {10, 25, 40, 50, 100, NaN}
NumPeaksGrid == {0, 1, 2}
AsymmetryGrid == {3, 4, 25, 100}
SkewnessGrid == {-20, 1, 15}
FwhmGrid == {1, 4, 5, 10, 20}
SweepSpanGrid == {0, 20, 100}

MetricsGrid ==
    [num_peaks : NumPeaksGrid, snr : SnrGrid, fwhm : FwhmGrid,
     sweep_span : SweepSpanGrid, asymmetry : AsymmetryGrid,
     skewness : SkewnessGrid, opx_bandwidth_artifact : BOOLEAN,
     nrmse : NrmseGrid, r_squared : RSquaredGrid]

\* the names a caller may try to pass: the declared ones and the two
\* thresholds the function reads from the module constants
KeywordNames == ParameterNames \cup {"nrmse_threshold", "r_squared_threshold"}

\* the value a caller passes for a keyword: one that differs from the default
\* and moves a grid value across the threshold
OverrideValue ==
    [snr_min |-> 45,
     snr_distorted |-> 30,
     asymmetry_min |-> 5,
     asymmetry_max |-> 20,
     skewness_max |-> 10,
     distorted_fraction_low_snr |-> 3,
     distorted_fraction_high_snr |-> 2,
     fwhm_absolute_threshold |-> 25,
     nrmse_threshold |-> 20,
     r_squared_threshold |-> 80]

KeywordSets ==
    {S \in SUBSET KeywordNames : Cardinality(S) <= MaxOverrides}
        \cup {ParameterNames}

KeywordArguments(S) == [k \in S |-> OverrideValue[k]]

NoKeywords == KeywordArguments({})

\* values of the variables a specification does not use
Unused == "unused"

-----------------------------------------------------------------------------
(* Direct calls of the classifier *)

InitClassify ==
    /\ pc = "ready"
    /\ metrics \in MetricsGrid
    /\ kwargs = NoKeywords
    /\ result = Unused
    /\ fit = NoKeywords
    /\ fitters = NoKeywords
    /\ circle_fit = <<>>
    /\ qubit_idx = 0
    /\ qubit_name = ""
    /\ fit_metrics = NoKeywords
    /\ outcomes = <<>>
    /\ fit_results = <<>>
    /\ emitted = <<>>
    /\ raised = [ok |-> TRUE]
    /\ peaks_dips_fit = NoKeywords

PipelineVars == <<fit, fitters, circle_fit, qubit_idx, qubit_name, fit_metrics, outcomes, fit_results, emitted, raised, peaks_dips_fit>>

\* one call _determine_resonator_outcome(metrics, **kw)
DetermineOutcome ==
    /\ pc = "ready"
    /\ \E S \in KeywordSets :
        /\ kwargs' = KeywordArguments(S)
        /\ result' = CallDetermineOutcome(metrics, KeywordArguments(S))
    /\ pc' = IF result' \in Exceptions THEN "raised" ELSE "returned"
    /\ UNCHANGED <<metrics, PipelineVars>>

NextClassify == DetermineOutcome

SpecClassify == InitClassify /\ [][NextClassify]_vars

-----------------------------------------------------------------------------
(* Datasets, dicts and exceptions *)

EmptyMap == [k \in {} |-> 0]

\* d[k] = v
Put(d, k, v) == [x \in DOMAIN d \cup {k} |-> IF x = k THEN v ELSE d[x]]

\* an insertion-ordered dict is a sequence of [key, value]
Keys(d) == [i \in 1..Len(d) |-> d[i].key]

HasKey(d, k) == \E i \in 1..Len(d) : d[i].key = k

\* mutant: {k: v, **d}, a new key goes before the keys already present
SetItem_AtFront(d, k, v) ==
    IF HasKey(d, k)
    THEN [i \in 1..Len(d) |-> IF d[i].key = k THEN [key |-> k, value |-> v] ELSE d[i]]
    ELSE <<[key |-> k, value |-> v]>> \o d

\* d[k] = v on an insertion-ordered dict: a key already present keeps its place
SetItem(d, k, v) ==
    IF HasKey(d, k)
    THEN [i \in 1..Len(d) |-> IF d[i].key = k THEN [key |-> k, value |-> v] ELSE d[i]]
    ELSE Append(d, [key |-> k, value |-> v])

Max(S) == CHOOSE x \in S : \A y \in S : y <= x
Min(S) == CHOOSE x \in S : \A y \in S : x <= y

\* a value returned, or an exception raised with the key its message carries
Return(v) == [ok |-> TRUE, value |-> v]
Raise(type, key) == [ok |-> FALSE, type |-> type, key |-> key]

\* nothing was raised
NoException == [ok |-> TRUE]

\* mutant: fit.isel(qubit=0), the first entry whatever the name
Sel_FirstEntry(f, name) == {1}

\* the positions fit.sel(qubit=name) selects, name being the qubit_name
\* of the call
Sel(f, name) == {i \in 1..Len(f.qubit) : f.qubit[i] = name}

\* a variable of the dataset: a data variable or a coordinate
HasVariable(f, v) == v \in f.data_vars \/ v \in DOMAIN f.coords

\* its value at position i; assign_coords replaces a data variable of the
\* same name
ValueAt(f, v, i) == IF v \in DOMAIN f.coords THEN f.coords[v][i] ELSE f.row[i][v]

\* fit.assign_coords(name=("qubit", values))
assign_coords(f, name, values) ==
    [f EXCEPT !.coords = Put(f.coords, name, values),
              !.data_vars = f.data_vars \ {name}]

\* fit.<name>.attrs = attrs
set_variable_attrs(f, name, attrs) ==
    [f EXCEPT !.var_attrs = Put(f.var_attrs, name, attrs)]

-----------------------------------------------------------------------------
(* _extract_qubit_fit_metrics, lines 236-257 *)

\* mutant: the full-frequency axis is preferred to the detuning axis
SweepSpan_FullFreqFirst(f) ==
    IF "full_freq" \in f.dims THEN Max(f.full_freq) - Min(f.full_freq)
    ELSE IF "detuning" \in f.dims THEN Max(f.detuning) - Min(f.detuning)
    ELSE 0

\* lines 239-245
SweepSpan(f) ==
    IF "detuning" \in f.dims THEN Max(f.detuning) - Min(f.detuning)
    ELSE IF "full_freq" \in f.dims THEN Max(f.full_freq) - Min(f.full_freq)
    ELSE 0

\* the scalar fields read from qubit_data, in the order the dict literal of
\* lines 247-254 evaluates them
DatasetFields == <<"num_peaks", "snr", "fwhm", "asymmetry", "skewness", "opx_bandwidth_artifact">>

\* mutant: the flag is stored as read
ExtractedArtifactFlag_AsRead(raw) == raw

\* line 254: the flag is stored negated
ExtractedArtifactFlag(raw) == ~raw

\* mutant: fitter.quality_metrics.get(k, 0.0)
QualityMetric_DefaultZero(fitter, k) ==
    IF k \in DOMAIN fitter.quality_metrics
    THEN Return(fitter.quality_metrics[k])
    ELSE Return(0)

\* lines 255-256: fitter.quality_metrics[k]
QualityMetric(fitter, k) ==
    IF k \in DOMAIN fitter.quality_metrics
    THEN Return(fitter.quality_metrics[k])
    ELSE Raise("KeyError", k)

_extract_qubit_fit_metrics(f, fs, name) ==
    LET qubit_data == Sel(f, name)
        absent == {j \in 1..Len(DatasetFields) : ~HasVariable(f, DatasetFields[j])}
        i == CHOOSE x \in qubit_data : TRUE
    IN  IF name \notin DOMAIN fs
            THEN Raise("KeyError", name)
        ELSE IF 1 \in absent
            THEN Raise("AttributeError", DatasetFields[1])
        ELSE IF Cardinality(qubit_data) > 1
            \* int() of an array with more than one element
            THEN Raise("TypeError", "num_peaks")
        ELSE IF absent # {}
            THEN Raise("AttributeError", DatasetFields[Min(absent)])
        ELSE IF ~QualityMetric(fs[name], "nrmse").ok
            THEN QualityMetric(fs[name], "nrmse")
        ELSE IF ~QualityMetric(fs[name], "r_squared").ok
            THEN QualityMetric(fs[name], "r_squared")
        ELSE Return(
            [num_peaks |-> ValueAt(f, "num_peaks", i),
             snr |-> ValueAt(f, "snr", i),
             fwhm |-> ValueAt(f, "fwhm", i),
             sweep_span |-> SweepSpan(f),
             asymmetry |-> ValueAt(f, "asymmetry", i),
             skewness |-> ValueAt(f, "skewness", i),
             opx_bandwidth_artifact |->
                 ExtractedArtifactFlag(ValueAt(f, "opx_bandwidth_artifact", i)),
             nrmse |-> QualityMetric(fs[name], "nrmse").value,
             r_squared |-> QualityMetric(fs[name], "r_squared").value])

-----------------------------------------------------------------------------
(* _calculate_resonator_parameters, lines 205-217 *)

\* mutant: fit.attrs.update(...), the attributes carried before are kept
_calculate_resonator_parameters_AttrsUpdated(f, cf, fs) ==
    LET f1 == [f EXCEPT !.attrs = Put(Put(f.attrs, "long_name", "frequency"), "units", "Hz")]
        res_freq == [k \in 1..Len(cf) |-> cf[k].value.frequency]
        fwhm == [k \in 1..Len(cf) |-> cf[k].value.fwhm]
    IN  IF Len(cf) # Len(f.qubit)
            \* assign_coords: the list does not fit the qubit dimension
            THEN Raise("ValueError", "qubit")
        ELSE LET f2 == set_variable_attrs(
                           assign_coords(f1, "res_freq", res_freq), "res_freq",
                           [long_name |-> "resonator frequency", units |-> "Hz"])
                 f3 == set_variable_attrs(
                           assign_coords(f2, "fwhm", fwhm), "fwhm",
                           [long_name |-> "resonator fwhm", units |-> "Hz"])
             IN  Return([f3 EXCEPT !.attrs = Put(f3.attrs, "s21_models", fs)])

_calculate_resonator_parameters(f, cf, fs) ==
    LET f1 == [f EXCEPT !.attrs = [long_name |-> "frequency", units |-> "Hz"]]
        res_freq == [k \in 1..Len(cf) |-> cf[k].value.frequency]
        fwhm == [k \in 1..Len(cf) |-> cf[k].value.fwhm]
    IN  IF Len(cf) # Len(f.qubit)
            \* assign_coords: the list does not fit the qubit dimension
            THEN Raise("ValueError", "qubit")
        ELSE LET f2 == set_variable_attrs(
                           assign_coords(f1, "res_freq", res_freq), "res_freq",
                           [long_name |-> "resonator frequency", units |-> "Hz"])
                 f3 == set_variable_attrs(
                           assign_coords(f2, "fwhm", fwhm), "fwhm",
                           [long_name |-> "resonator fwhm", units |-> "Hz"])
             IN  Return([f3 EXCEPT !.attrs = Put(f3.attrs, "s21_models", fs)])

(* FitParameters, lines 28-33 *)
FitParameters(frequency, fwhm, outcome) ==
    [type |-> "FitParameters", frequency |-> frequency, fwhm |-> fwhm, outcome |-> outcome]

-----------------------------------------------------------------------------
(* log_fitted_results, lines 50-72 *)

\* f"{frequency * 1e-9:.3f}": thousandths of a GHz, rounded to nearest
\* (frequency in units of 1e5 Hz; the grids hold no tie)
FormatGHz(frequency) == (frequency + 5) \div 10

\* f"{fwhm * 1e-3:.1f}": tenths of a kHz
FormatKHz(fwhm) == fwhm * 1000

\* results.get(key, default) on a loosely-typed record
Get(results, key, default) ==
    IF key \in DOMAIN results.items THEN results.items[key] ELSE default

\* mutant: the outcome is compared with another literal
LogLine_WrongLiteral(name, results) ==
    LET has_outcome == results.type = "FitParameters"
        outcome == IF has_outcome THEN results.outcome ELSE Get(results, "outcome", "unknown")
        frequency == IF has_outcome THEN results.frequency ELSE Get(results, "frequency", 0)
        fwhm == IF has_outcome THEN results.fwhm ELSE Get(results, "fwhm", 0)
    IN  <<"Results for qubit ", name, ": ">>
            \o (IF outcome = "success"
                THEN <<" SUCCESS!\n">>
                ELSE <<" FAIL! Reason: ", outcome, "\n">>)
            \o <<"\tResonator frequency: ", ToString(FormatGHz(frequency)), " GHz | ">>
            \o <<"FWHM: ", ToString(FormatKHz(fwhm)), " kHz | ">>

\* the line passed to log_callable, as the sequence of its pieces
LogLine(name, results) ==
    LET has_outcome == results.type = "FitParameters"
        outcome == IF has_outcome THEN results.outcome ELSE Get(results, "outcome", "unknown")
        frequency == IF has_outcome THEN results.frequency ELSE Get(results, "frequency", 0)
        fwhm == IF has_outcome THEN results.fwhm ELSE Get(results, "fwhm", 0)
        status_line ==
            <<"Results for qubit ", name, ": ">>
                \o (IF outcome = "successful"
                    THEN <<" SUCCESS!\n">>
                    ELSE <<" FAIL! Reason: ", outcome, "\n">>)
        freq_str == <<"\tResonator frequency: ", ToString(FormatGHz(frequency)), " GHz | ">>
        fwhm_str == <<"FWHM: ", ToString(FormatKHz(fwhm)), " kHz | ">>
    IN  status_line \o freq_str \o fwhm_str

-----------------------------------------------------------------------------
(* Bounded inputs of the pipeline: what peaks_dips and                     *)
(* circle_fit_s21_resonator_model return for a dataset of n qubits.        *)

\* at most this many qubits in a dataset
MaxQubits == 2

QubitPool == <<"q0", "q1", "q2", "q3">>

\* float("inf") read from the dataset: above every finite value and threshold
Infinity == 1000000

\* one qubit's share of the collaborators' results: the peaks_dips fields,
\* the circle fit's frequency and fwhm, the fitter's quality metrics
FullRows ==
    [num_peaks : {0, 1, 2}, snr : {10, 40, 100, Infinity}, fwhm : {2},
     asymmetry : {10, 100}, skewness : {1, -20},
     opx_bandwidth_artifact : BOOLEAN,
     frequency : {50004}, circle_fwhm : {1, 5, 20},
     nrmse : {5}, r_squared : {90, 95}]

Row(np, snr, raw, freq, cfwhm, r2) ==
    [num_peaks |-> np, snr |-> snr, fwhm |-> 2, asymmetry |-> 10,
     skewness |-> 1, opx_bandwidth_artifact |-> raw, frequency |-> freq,
     circle_fwhm |-> cfwhm, nrmse |-> 5, r_squared |-> r2]

\* the rows of datasets of several qubits: a good circle fit, a low SNR, a
\* raw artifact flag of false, two peaks, a clean narrow peak, a wide peak
CoreRows ==
    {Row(0, 10, FALSE, 50004, 1, 95),
     Row(1, 10, TRUE, 50006, 1, 90),
     Row(1, 100, FALSE, 50004, 5, 90),
     Row(2, 100, TRUE, 50006, 5, 90),
     Row(1, 100, TRUE, 50004, 1, 90),
     Row(1, 100, TRUE, 50006, 20, 90)}

\* the sweep axes of the fit dataset
AxisConfigs ==
    {[dims |-> {"detuning"}, detuning |-> {-50, 0, 50}, full_freq |-> {}],
     [dims |-> {"full_freq"}, detuning |-> {}, full_freq |-> {49990, 50010}],
     [dims |-> {"detuning", "full_freq"}, detuning |-> {-10, 10}, full_freq |-> {49950, 50050}],
     [dims |-> {}, detuning |-> {}, full_freq |-> {}]}

DetuningAxis == [dims |-> {"detuning"}, detuning |-> {-50, 0, 50}, full_freq |-> {}]

\* the attributes the dataset carries when peaks_dips returns it
InputAttrs ==
    {[k \in {} |-> ""],
     [long_name |-> "IQ amplitude", peak_finder |-> "peaks_dips"]}

DatasetFieldSet == {DatasetFields[j] : j \in 1..Len(DatasetFields)}

\* what the collaborators left out: nothing, one data variable of the fit
\* dataset, the fitter of the last qubit, or one of its quality metrics
MissingChoices == {"nothing", "fitter", "nrmse", "r_squared"} \cup DatasetFieldSet

\* the name sequences of a dataset of n qubits: distinct names, or the first
\* name twice
QubitNames(n) ==
    {[i \in 1..n |-> QubitPool[i]]}
        \cup (IF n >= 2 THEN {[i \in 1..n |-> IF i = 2 THEN QubitPool[1] ELSE QubitPool[i]]} ELSE {})

NameSet(names) == {names[i] : i \in 1..Len(names)}

FirstPosition(names, q) == Min({i \in 1..Len(names) : names[i] = q})

\* the orders in which the circle fit may list the qubits
KeyOrders(names) ==
    {o \in [1..Cardinality(NameSet(names)) -> NameSet(names)] :
        \A a, b \in DOMAIN o : a # b => o[a] # o[b]}

PeaksDipsFit(names, rows, axes, missing, attrs) ==
    [qubit |-> names,
     data_vars |-> DatasetFieldSet \ {missing},
     row |-> [i \in 1..Len(names) |->
                [v \in DatasetFieldSet |-> rows[i][v]]],
     dims |-> axes.dims,
     detuning |-> axes.detuning,
     full_freq |-> axes.full_freq,
     coords |-> EmptyMap,
     attrs |-> attrs,
     var_attrs |-> EmptyMap]

Fitters(names, rows, missing) ==
    LET last == names[Len(names)]
        present == NameSet(names) \ (IF missing = "fitter" THEN {last} ELSE {})
    IN  [q \in present |->
            [quality_metrics |->
                [k \in {"nrmse", "r_squared"} \ (IF q = last THEN {missing} ELSE {}) |->
                    rows[FirstPosition(names, q)][k]]]]

CircleFit(names, rows, order) ==
    [k \in 1..Len(order) |->
        [key |-> order[k],
         value |-> [frequency |-> rows[FirstPosition(names, order[k])].frequency,
                    fwhm |-> rows[FirstPosition(names, order[k])].circle_fwhm]]]

\* a dataset of one qubit takes any row and any axes; a dataset of several
\* qubits takes the core rows and a detuning axis, alone or with a
\* full-frequency axis
RowsOf(n) == IF n = 1 THEN [1..1 -> FullRows] ELSE [1..n -> CoreRows]

AxesOf(n) ==
    IF n = 1 THEN AxisConfigs ELSE {x \in AxisConfigs : "detuning" \in x.dims}

\* result maps handed to log_fitted_results by other callers: FitParameters
\* objects and loosely-typed records, some of whose fields may be absent
LooseEntries ==
    {FitParameters(50004, 1, Successful),
     [type |-> "dict", items |-> [outcome |-> Successful, frequency |-> 50006, fwhm |-> 5]],
     [type |-> "dict", items |-> [outcome |-> NoPeaks, frequency |-> 50004, fwhm |-> 1]],
     [type |-> "dict", items |-> [frequency |-> 50004]],
     [type |-> "dict", items |-> EmptyMap]}

LooseResultMaps ==
    UNION {{[i \in 1..n |-> [key |-> QubitPool[i], value |-> e[i]]] :
                e \in [1..n -> LooseEntries]} : n \in 0..MaxQubits}

-----------------------------------------------------------------------------
(* The pipeline, lines 157-183, and the logger, lines 47-72 *)

ClassifyVars == <<metrics, kwargs, result>>

Init ==
    /\ metrics = Unused
    /\ kwargs = NoKeywords
    /\ result = Unused
    /\ qubit_idx = 1
    /\ qubit_name = ""
    /\ fit_metrics = EmptyMap
    /\ outcomes = <<>>
    /\ emitted = <<>>
    /\ raised = NoException
    /\ \/ /\ pc = "start"
          /\ \E n \in 1..MaxQubits :
             \E names \in QubitNames(n), rows \in RowsOf(n), axes \in AxesOf(n),
                missing \in MissingChoices, attrs \in InputAttrs :
             \E order \in KeyOrders(names) :
                /\ fit = PeaksDipsFit(names, rows, axes, missing, attrs)
                /\ fitters = Fitters(names, rows, missing)
                /\ circle_fit = CircleFit(names, rows, order)
          /\ fit_results = <<>>
          /\ peaks_dips_fit = fit
       \/ /\ pc = "done"
          /\ fit = EmptyMap
          /\ peaks_dips_fit = EmptyMap
          /\ fitters = EmptyMap
          /\ circle_fit = <<>>
          /\ fit_results \in LooseResultMaps

\* mutant: outcomes.insert(0, outcome)
AppendOutcome_AtFront(list, outcome) == <<outcome>> \o list

\* line 170: outcomes.append(outcome)
AppendOutcome(list, outcome) == Append(list, outcome)

\* line 158: fit, fitters = _calculate_resonator_parameters(ds, fit, node)
CalculateResonatorParameters ==
    /\ pc = "start"
    /\ LET r == _calculate_resonator_parameters(fit, circle_fit, fitters)
       IN  IF r.ok
           THEN /\ fit' = r.value
                /\ pc' = "loop"
                /\ raised' = raised
           ELSE /\ fit' = [fit EXCEPT !.attrs = [long_name |-> "frequency", units |-> "Hz"]]
                /\ pc' = "raised"
                /\ raised' = r
    /\ UNCHANGED <<ClassifyVars, fitters, circle_fit, qubit_idx, qubit_name,
                   fit_metrics, outcomes, fit_results, emitted, peaks_dips_fit>>

\* lines 164-177: one pass of the loop over fit.qubit.values
ExtractAndClassify ==
    /\ pc = "loop"
    /\ qubit_idx <= Len(fit.qubit)
    /\ qubit_name' = fit.qubit[qubit_idx]
    /\ LET r == _extract_qubit_fit_metrics(fit, fitters, qubit_name')
           outcome == CallDetermineOutcome(r.value, NoKeywords)
           i == CHOOSE x \in Sel(fit, qubit_name') : TRUE
       IN  IF ~r.ok
           THEN /\ pc' = "raised"
                /\ raised' = r
                /\ UNCHANGED <<fit_metrics, outcomes, fit_results, qubit_idx>>
           ELSE IF outcome \in Exceptions
           THEN /\ pc' = "raised"
                /\ raised' = Raise(outcome, "")
                /\ fit_metrics' = r.value
                /\ UNCHANGED <<outcomes, fit_results, qubit_idx>>
           ELSE /\ fit_metrics' = r.value
                /\ outcomes' = AppendOutcome(outcomes, outcome)
                /\ fit_results' =
                       SetItem(fit_results, qubit_name',
                               FitParameters(ValueAt(fit, "res_freq", i),
                                             ValueAt(fit, "fwhm", i), outcome))
                /\ qubit_idx' = qubit_idx + 1
                /\ UNCHANGED <<pc, raised>>
    /\ UNCHANGED <<ClassifyVars, fit, fitters, circle_fit, emitted, peaks_dips_fit>>

\* lines 180-183: the outcomes become a coordinate and the function returns
AssignOutcome ==
    /\ pc = "loop"
    /\ qubit_idx > Len(fit.qubit)
    /\ fit' = set_variable_attrs(assign_coords(fit, "outcome", outcomes), "outcome",
                                  [long_name |-> "fit outcome", units |-> ""])
    /\ pc' = "done"
    /\ UNCHANGED <<ClassifyVars, fitters, circle_fit, qubit_idx, qubit_name,
                   fit_metrics, outcomes, fit_results, emitted, raised,
                   peaks_dips_fit>>

\* a direct call _extract_qubit_fit_metrics(fit, fitters, qubit_name) on the
\* dataset as peaks_dips returned it
ExtractQubitFitMetrics ==
    /\ pc = "start"
    /\ \E j \in 1..Len(fit.qubit) :
          LET r == _extract_qubit_fit_metrics(fit, fitters, fit.qubit[j])
          IN  /\ qubit_idx' = j
              /\ qubit_name' = fit.qubit[j]
              /\ IF r.ok
                 THEN fit_metrics' = r.value /\ raised' = raised
                 ELSE fit_metrics' = fit_metrics /\ raised' = r
    /\ pc' = "extracted"
    /\ UNCHANGED <<ClassifyVars, fit, fitters, circle_fit, outcomes,
                   fit_results, emitted, peaks_dips_fit>>

\* lines 50-72: one pass of the loop over fit_results.items()
LogEmit ==
    /\ pc = "done"
    /\ Len(emitted) < Len(fit_results)
    /\ LET e == fit_results[Len(emitted) + 1]
       IN  emitted' = Append(emitted, LogLine(e.key, e.value))
    /\ UNCHANGED <<pc, ClassifyVars, fit, fitters, circle_fit, qubit_idx,
                   qubit_name, fit_metrics, outcomes, fit_results, raised,
                   peaks_dips_fit>>

\* the loop is over: log_fitted_results returns None
LogReturn ==
    /\ pc = "done"
    /\ Len(emitted) = Len(fit_results)
    /\ pc' = "logged"
    /\ UNCHANGED <<ClassifyVars, fit, fitters, circle_fit, qubit_idx,
                   qubit_name, fit_metrics, outcomes, fit_results, emitted, raised,
                   peaks_dips_fit>>

Next ==
    \/ CalculateResonatorParameters
    \/ ExtractAndClassify
    \/ AssignOutcome
    \/ ExtractQubitFitMetrics
    \/ LogEmit
    \/ LogReturn

Spec == Init /\ [][Next]_vars

-----------------------------------------------------------------------------
(* The classifier as section 4.2 of the specification states it, for the   *)
(* claims below: t holds the ten thresholds of ClassifierConfig.           *)

RuleHolds(k, m, t) ==
    CASE k = 1 -> m.r_squared > t.r_squared_threshold /\ m.nrmse < t.nrmse_threshold
      [] k = 2 -> m.snr < t.snr_min
      [] k = 3 -> m.opx_bandwidth_artifact
      [] k = 4 -> m.num_peaks > 1
      [] k = 5 -> m.num_peaks = 0
      [] k = 6 -> \/ m.asymmetry < t.asymmetry_min
                  \/ m.asymmetry > t.asymmetry_max
                  \/ m.skewness > t.skewness_max
                  \/ -m.skewness > t.skewness_max
      [] k = 7 -> LET fraction == IF m.snr < t.snr_distorted
                                  THEN t.distorted_fraction_low_snr
                                  ELSE t.distorted_fraction_high_snr
                  IN  \/ m.sweep_span > 0 /\ m.fwhm * 10 > fraction * m.sweep_span
                      \/ m.fwhm > t.fwhm_absolute_threshold

Rules == 1..7

SomeRuleHolds(m, t) == \E k \in Rules : RuleHolds(k, m, t)

FirstRule(m, t) ==
    CHOOSE k \in Rules :
        RuleHolds(k, m, t) /\ \A j \in 1..(k - 1) : ~RuleHolds(j, m, t)

RuleOutcomes(k, m, t) ==
    CASE k = 1 -> {Successful}
      [] k = 2 -> {LowSnr}
      [] k = 3 -> {Artifact}
      [] k = 4 -> {SeveralPeaks}
      [] k = 5 -> {NoPeaksLowSnr, NoPeaks}
      [] k = 6 -> {ShapeDistorted}
      [] k = 7 -> {LowSnrDistorted, DistortedPeak}

\* the defaults of ClassifierConfig, section 4.2
ConfigDefaults ==
    [snr_min |-> 25, snr_distorted |-> 50, asymmetry_min |-> 4,
     asymmetry_max |-> 25, skewness_max |-> 15,
     distorted_fraction_low_snr |-> 2, distorted_fraction_high_snr |-> 3,
     fwhm_absolute_threshold |-> 10, nrmse_threshold |-> 14,
     r_squared_threshold |-> 90]

\* the thresholds in force when the caller may override those in `names`
ConfigWith(kw, names) ==
    [p \in DOMAIN ConfigDefaults |->
        IF p \in names /\ p \in DOMAIN kw THEN kw[p] ELSE ConfigDefaults[p]]

\* the thresholds of the call in the current state, the eight declared
\* parameters being overridable
Config == ConfigWith(kwargs, ParameterNames)

\* the outcome of the cascade of section 4.2 under thresholds t
CascadeOutcome(m, t) ==
    IF ~SomeRuleHolds(m, t) THEN Successful
    ELSE LET k == FirstRule(m, t)
         IN  CASE k = 5 -> NoPeaks
               [] k = 7 -> IF m.snr < t.snr_distorted THEN LowSnrDistorted
                                                      ELSE DistortedPeak
               [] OTHER -> CHOOSE o \in RuleOutcomes(k, m, t) : TRUE

OutcomeStrings ==
    {Successful, LowSnr, Artifact, SeveralPeaks, NoPeaksLowSnr, NoPeaks,
     ShapeDistorted, LowSnrDistorted, DistortedPeak}

\* a direct call has been made with keywords the signature declares
Called == pc \in {"returned", "raised"} /\ ~UnexpectedKeyword(kwargs)

GoodFit(m) == m.r_squared > 90 /\ m.nrmse < 14

-----------------------------------------------------------------------------
(* C1: every metrics record with r_squared > 0.90 and nrmse < 0.14 is      *)
(* classified "successful", whatever its other metrics (low snr, artifact  *)
(* flag, any peak count) and whatever thresholds the caller passes.        *)
C1_GoodFitIsSuccessful ==
    (Called /\ GoodFit(metrics)) => result = Successful

C1_Witness ==
    /\ Called /\ GoodFit(metrics) /\ result = Successful
    /\ metrics.snr < 25 /\ metrics.opx_bandwidth_artifact
    /\ metrics.num_peaks = 0 /\ metrics.asymmetry = 100 /\ metrics.fwhm = 20

(* C2: with the default thresholds, every metrics record with snr < 2.5    *)
(* that is not a good fit (r_squared <= 0.90 or nrmse >= 0.14) gets the    *)
(* low-SNR message, whatever its other metrics.                            *)
C2_LowSnrMessage ==
    (Called /\ kwargs = NoKeywords /\ metrics.snr < 25 /\ ~GoodFit(metrics))
        => result = LowSnr

C2_Witness ==
    /\ Called /\ kwargs = NoKeywords /\ result = LowSnr
    /\ metrics.snr = 10 /\ metrics.r_squared = 95 /\ metrics.nrmse = 14
    /\ metrics.opx_bandwidth_artifact /\ metrics.num_peaks = 2

(* C3: the rules are evaluated in the order good fit, low SNR, bandwidth   *)
(* artifact, several peaks, no peaks, distorted shape, too wide: when one  *)
(* or more rule conditions hold, the outcome returned is the one of the    *)
(* earliest rule whose condition holds.                                    *)
C3_FirstMatchWins ==
    (Called /\ SomeRuleHolds(metrics, Config))
        => result \in RuleOutcomes(FirstRule(metrics, Config), metrics, Config)

C3_Witness ==
    /\ Called /\ result = Artifact
    /\ FirstRule(metrics, Config) = 3
    /\ RuleHolds(4, metrics, Config)
    /\ RuleHolds(6, metrics, Config)
    /\ RuleHolds(7, metrics, Config)

(* C4: when none of rules 1 to 6 matches, the peak is too wide exactly     *)
(* when (sweep_span > 0 and fwhm / sweep_span > distorted_fraction) or     *)
(* fwhm > fwhm_absolute_threshold, with distorted_fraction the low-SNR     *)
(* fraction if snr < snr_distorted and the high-SNR fraction otherwise;    *)
(* then the outcome is "low SNR and distorted" if snr < snr_distorted and  *)
(* "distorted peak" otherwise, and when not too wide it is "successful".   *)
C4_TooWide ==
    (Called /\ \A k \in 1..6 : ~RuleHolds(k, metrics, Config))
        => LET t == Config
               fraction == IF metrics.snr < t.snr_distorted
                           THEN t.distorted_fraction_low_snr
                           ELSE t.distorted_fraction_high_snr
               too_wide ==
                   \/ /\ metrics.sweep_span > 0
                      /\ metrics.fwhm * 10 > fraction * metrics.sweep_span
                   \/ metrics.fwhm > t.fwhm_absolute_threshold
           IN  result = IF ~too_wide THEN Successful
                        ELSE IF metrics.snr < t.snr_distorted THEN LowSnrDistorted
                        ELSE DistortedPeak

\* fwhm = 2e6, sweep_span = 1e7, snr = 10: below the fraction, above the
\* absolute threshold
C4_Witness ==
    /\ Called /\ kwargs = NoKeywords /\ result = DistortedPeak
    /\ \A k \in 1..6 : ~RuleHolds(k, metrics, Config)
    /\ metrics.fwhm = 20 /\ metrics.sweep_span = 100 /\ metrics.snr = 100

(* C5, as claimed: the caller may override any subset of the ten           *)
(* thresholds, nrmse_threshold and r_squared_threshold included, and the   *)
(* call decides each rule with the value supplied.                         *)
C5_AnyThresholdOverridable ==
    pc \in {"returned", "raised"}
        => result = CascadeOutcome(metrics, ConfigWith(kwargs, DOMAIN ConfigDefaults))

(* C5, amended: the caller may override any subset of the eight thresholds *)
(* snr_min, snr_distorted, asymmetry_min, asymmetry_max, skewness_max,     *)
(* distorted_fraction_low_snr, distorted_fraction_high_snr and             *)
(* fwhm_absolute_threshold, and the call decides each rule with the value  *)
(* supplied; nrmse_threshold and r_squared_threshold are not parameters:   *)
(* rule 1 is always decided with 0.14 and 0.90, and a call that passes     *)
(* either name raises TypeError.                                           *)
C5_DeclaredThresholdsOverridable ==
    pc \in {"returned", "raised"}
        => IF \E k \in DOMAIN kwargs :
                  k \in {"nrmse_threshold", "r_squared_threshold"}
           THEN result = TypeError
           ELSE result = CascadeOutcome(metrics, ConfigWith(kwargs, ParameterNames))

\* snr = 4.0 passes the default snr_min of 2.5 and fails the supplied 4.5
C5_Witness ==
    /\ pc = "returned" /\ DOMAIN kwargs = {"snr_min"} /\ kwargs.snr_min = 45
    /\ metrics.snr = 40 /\ ~GoodFit(metrics)
    /\ result = LowSnr
    /\ CascadeOutcome(metrics, ConfigDefaults) # LowSnr

(* C6: for every metrics record with finite values the call returns        *)
(* without raising, and the value returned is one of the nine fixed        *)
(* outcome strings.                                                        *)
C6_TotalOverFiniteMetrics ==
    Called => pc = "returned" /\ result \in OutcomeStrings

\* a zero sweep span reaching the width rule
C6_Witness ==
    /\ Called /\ pc = "returned" /\ result = Successful
    /\ metrics.sweep_span = 0
    /\ \A k \in 1..6 : ~RuleHolds(k, metrics, Config)

-----------------------------------------------------------------------------
(* Claims about the pipeline *)

\* _extract_and_validate_fit_parameters has returned
PipelineDone == pc \in {"done", "logged"} /\ DOMAIN fit # {}

\* _extract_qubit_fit_metrics has been called for qubit_name
Attempted == qubit_name # ""

\* the call returned the metrics now in fit_metrics
Extracted == Attempted /\ raised.ok /\ DOMAIN fit_metrics # {}

\* the required fields absent for qubit q
MissingFields(f, fs, q) ==
    {v \in DatasetFieldSet : ~HasVariable(f, v)}
        \cup (IF q \notin DOMAIN fs THEN {"fitter"}
              ELSE {k \in {"nrmse", "r_squared"} : k \notin DOMAIN fs[q].quality_metrics})

(* C7: when _extract_and_validate_fit_parameters returns, the outcome       *)
(* coordinate has one entry per entry of the qubit dimension, and its i-th *)
(* entry is the classification of the i-th qubit of the fit dataset.       *)
C7_OneOutcomePerQubit ==
    PipelineDone =>
        /\ "outcome" \in DOMAIN fit.coords
        /\ Len(fit.coords["outcome"]) = Len(fit.qubit)
        /\ \A i \in 1..Len(fit.qubit) :
              fit.coords["outcome"][i] =
                  CallDetermineOutcome(
                      _extract_qubit_fit_metrics(fit, fitters, fit.qubit[i]).value,
                      NoKeywords)

C7_Witness ==
    /\ PipelineDone
    /\ fit.qubit = <<"q0", "q1">>
    /\ fit.coords["outcome"] = <<Artifact, SeveralPeaks>>

(* C8: the extracted opx_bandwidth_artifact is the logical NOT of the raw   *)
(* flag of the qubit's slice of the fit dataset.                           *)
C8_ArtifactFlagInverted ==
    Extracted =>
        \A i \in Sel(fit, qubit_name) :
            /\ fit.row[i].opx_bandwidth_artifact => ~fit_metrics.opx_bandwidth_artifact
            /\ ~fit.row[i].opx_bandwidth_artifact => fit_metrics.opx_bandwidth_artifact

C8_Witness ==
    /\ Extracted
    /\ fit.row[1].opx_bandwidth_artifact
    /\ qubit_name = "q0"
    /\ fit_metrics.opx_bandwidth_artifact = FALSE

(* C9, as claimed: when a required field is absent, the call of             *)
(* _extract_qubit_fit_metrics fails with a MissingFieldError.              *)
C9_MissingFieldError ==
    (Attempted /\ MissingFields(fit, fitters, qubit_name) # {})
        => ~raised.ok /\ raised.type = "MissingFieldError"

(* C9, amended: when a required field is absent, the call returns no        *)
(* metrics record: it raises the error of the failed lookup, which names   *)
(* the missing key only.  For a qubit name that labels one entry of the    *)
(* dataset that is KeyError naming the qubit when its fitter is absent,    *)
(* else AttributeError naming an absent data variable, else KeyError       *)
(* naming the absent quality metric.                                       *)
C9_LookupErrorRaised ==
    (Attempted /\ MissingFields(fit, fitters, qubit_name) # {})
        => LET miss == MissingFields(fit, fitters, qubit_name)
           IN  /\ ~raised.ok
               /\ raised.type \in {"KeyError", "AttributeError", "TypeError"}
               /\ Cardinality(Sel(fit, qubit_name)) = 1 =>
                    IF "fitter" \in miss
                        THEN raised = Raise("KeyError", qubit_name)
                    ELSE IF miss \cap DatasetFieldSet # {}
                        THEN raised.type = "AttributeError"
                             /\ raised.key \in miss \cap DatasetFieldSet
                    ELSE raised.type = "KeyError" /\ raised.key \in miss

\* the second qubit's fitter lacks nrmse: the run ends there, after one
\* outcome
C9_Witness ==
    /\ pc = "raised" /\ Attempted
    /\ qubit_name = "q1"
    /\ "nrmse" \in MissingFields(fit, fitters, qubit_name)
    /\ raised = Raise("KeyError", "nrmse")
    /\ Len(outcomes) = 1

\* the outcome log_fitted_results reads from an entry
EntryOutcome(results) ==
    IF results.type = "FitParameters" THEN results.outcome
    ELSE IF "outcome" \in DOMAIN results.items THEN results.items["outcome"]
    ELSE "unknown"

(* C10: log_fitted_results passes one line per entry of the results map to *)
(* the emit callable, in the map's order; the line names the entry's qubit *)
(* and reports SUCCESS! exactly when the entry's outcome is "successful",  *)
(* otherwise FAIL! Reason: and the outcome; when it returns, as many lines *)
(* were emitted as the map has entries.                                    *)
C10_OneLinePerEntry ==
    /\ Len(emitted) <= Len(fit_results)
    /\ pc = "logged" => Len(emitted) = Len(fit_results)
    /\ \A i \in 1..Len(emitted) :
          LET e == fit_results[i]
              o == EntryOutcome(e.value)
          IN  /\ emitted[i][1] = "Results for qubit "
              /\ emitted[i][2] = e.key
              /\ IF o = "successful"
                 THEN emitted[i][4] = " SUCCESS!\n" /\ Len(emitted[i]) = 10
                 ELSE /\ emitted[i][4] = " FAIL! Reason: "
                      /\ emitted[i][5] = o
                      /\ Len(emitted[i]) = 12

C10_Witness ==
    /\ pc = "logged" /\ PipelineDone
    /\ Len(emitted) = 2
    /\ emitted[1][2] = "q0" /\ emitted[1][4] = " SUCCESS!\n"
    /\ emitted[2][2] = "q1" /\ emitted[2][4] = " FAIL! Reason: "
    /\ emitted[2][5] = LowSnr

-----------------------------------------------------------------------------
(* Claims about the dataset fit_raw_data returns *)

\* the qubit coordinates the pipeline stage attaches
AddedCoordinates == {"res_freq", "fwhm", "outcome"}

\* the qubits, the values of the data variables and the sweep axes of f and g
\* are the same
SameData(f, g) ==
    /\ f.qubit = g.qubit
    /\ f.row = g.row
    /\ f.dims = g.dims
    /\ f.detuning = g.detuning
    /\ f.full_freq = g.full_freq

(* C11, as claimed: the dataset returned differs from the one peaks_dips    *)
(* returned only by the added res_freq, fwhm and outcome coordinates: its  *)
(* data variables, coordinates and attributes are unchanged.               *)
C11_OnlyCoordinatesAdded ==
    PipelineDone =>
        /\ SameData(fit, peaks_dips_fit)
        /\ fit.data_vars = peaks_dips_fit.data_vars
        /\ DOMAIN fit.coords = DOMAIN peaks_dips_fit.coords \cup AddedCoordinates
        /\ fit.attrs = peaks_dips_fit.attrs

(* C11, amended: the dataset returned keeps the qubits, the sweep axes and  *)
(* every data variable of the dataset peaks_dips returned, except a data   *)
(* variable named res_freq, fwhm or outcome, which the coordinate of that  *)
(* name replaces; it gains the res_freq, fwhm and outcome coordinates; its *)
(* attributes are replaced:                                                *)
(* they are exactly long_name = "frequency", units = "Hz" and s21_models   *)
(* (the fitters), whatever attributes the dataset carried before.          *)
C11_DataKeptAttrsReplaced ==
    PipelineDone =>
        /\ SameData(fit, peaks_dips_fit)
        /\ fit.data_vars = peaks_dips_fit.data_vars \ AddedCoordinates
        /\ DOMAIN fit.coords = DOMAIN peaks_dips_fit.coords \cup AddedCoordinates
        /\ fit.attrs = Put([long_name |-> "frequency", units |-> "Hz"],
                           "s21_models", fitters)

\* a dataset that carried attributes and a fwhm data variable
C11_Witness ==
    /\ PipelineDone
    /\ "peak_finder" \in DOMAIN peaks_dips_fit.attrs
    /\ "peak_finder" \notin DOMAIN fit.attrs
    /\ fit.attrs["long_name"] = "frequency"
    /\ "fwhm" \in peaks_dips_fit.data_vars
    /\ "fwhm" \notin fit.data_vars
    /\ Len(fit.qubit) = 2

-----------------------------------------------------------------------------
(* Further claims about direct calls of the classifier *)

\* the fraction of the sweep span rule 7 allows a peak of metrics m
DistortedFraction(m, t) ==
    IF m.snr < t.snr_distorted THEN t.distorted_fraction_low_snr
                               ELSE t.distorted_fraction_high_snr

DistortionMessages == {LowSnrDistorted, DistortedPeak}

(* C12: when a call reaches rule 7 and returns a distortion message, the    *)
(* same call with fwhm replaced by any smaller value that is at most       *)
(* sweep_span * distorted_fraction and at most fwhm_absolute_threshold,    *)
(* all other metrics and the thresholds unchanged, returns "successful".   *)
C12_NarrowerPeakSucceeds ==
    (Called /\ result \in DistortionMessages) =>
        \A w \in FwhmGrid :
            (/\ w < metrics.fwhm
             /\ w * 10 <= DistortedFraction(metrics, Config) * metrics.sweep_span
             /\ w <= Config.fwhm_absolute_threshold)
                => CallDetermineOutcome([metrics EXCEPT !.fwhm = w], kwargs) = Successful

\* fwhm = 5e5 over a span of 2e6 is too wide at low SNR (0.25 > 0.2); 4e5 is
\* exactly the allowed fraction
C12_Witness ==
    /\ Called /\ kwargs = NoKeywords /\ result = LowSnrDistorted
    /\ metrics.fwhm = 5 /\ metrics.sweep_span = 20 /\ metrics.snr = 40
    /\ 4 * 10 <= DistortedFraction(metrics, Config) * metrics.sweep_span
    /\ CallDetermineOutcome([metrics EXCEPT !.fwhm = 4], kwargs) = Successful

(* C16: a zero sweep span disables the relative-width check: for a call     *)
(* with sweep_span = 0 that reaches rule 7, no division by sweep_span is   *)
(* evaluated, the peak is too wide exactly when fwhm exceeds               *)
(* fwhm_absolute_threshold, and the outcome is "successful" for every fwhm *)
(* at or below that threshold.                                             *)
C16_ZeroSpanAbsoluteOnly ==
    (/\ Called
     /\ metrics.sweep_span = 0
     /\ \A k \in 1..6 : ~RuleHolds(k, metrics, Config))
        => /\ pc = "returned"
           /\ ~RelativeWidthGuard(metrics.sweep_span)
           /\ result \in DistortionMessages
                <=> metrics.fwhm > Config.fwhm_absolute_threshold
           /\ metrics.fwhm <= Config.fwhm_absolute_threshold => result = Successful

\* a width equal to the absolute threshold, over a zero span
C16_Witness ==
    /\ Called /\ kwargs = NoKeywords /\ result = Successful
    /\ metrics.sweep_span = 0 /\ metrics.fwhm = 10
    /\ \A k \in 1..6 : ~RuleHolds(k, metrics, Config)

(* C17: the inner low-SNR branch of rule 5 is unreachable: for every        *)
(* metrics record and every choice of thresholds the call never returns    *)
(* the message that combines low SNR with "ensure you are looking at the   *)
(* correct frequency range"; whenever num_peaks = 0 and rules 1 to 3 do    *)
(* not match, the result is the generic no-peaks message.                  *)
C17_InnerLowSnrUnreachable ==
    /\ result # NoPeaksLowSnr
    /\ (/\ Called
        /\ metrics.num_peaks = 0
        /\ \A k \in 1..3 : ~RuleHolds(k, metrics, Config))
            => result = NoPeaks

\* no peaks, with an SNR at the supplied snr_min
C17_Witness ==
    /\ Called /\ result = NoPeaks
    /\ metrics.num_peaks = 0
    /\ DOMAIN kwargs = {"snr_min"}
    /\ kwargs.snr_min = 45 /\ metrics.snr = 50
    /\ \A k \in 1..3 : ~RuleHolds(k, metrics, Config)

\* a >= b on floats: False when a is NaN
AtLeast(a, b) == a # NaN /\ a >= b

(* C21: for every metrics record with num_peaks >= 0, the call returns      *)
(* "successful" only if the fit is good (r_squared > 0.90 and nrmse <      *)
(* 0.14) or all of these hold: snr >= snr_min, opx_bandwidth_artifact is   *)
(* false, num_peaks = 1, asymmetry lies in [asymmetry_min, asymmetry_max], *)
(* |skewness| <= skewness_max, fwhm <= fwhm_absolute_threshold, and        *)
(* sweep_span <= 0 or fwhm / sweep_span <= the SNR-dependent fraction.     *)
C21_SuccessfulOnlyIf ==
    (Called /\ metrics.num_peaks >= 0 /\ result = Successful) =>
        \/ GoodFit(metrics)
        \/ /\ AtLeast(metrics.snr, Config.snr_min)
           /\ ~metrics.opx_bandwidth_artifact
           /\ metrics.num_peaks = 1
           /\ metrics.asymmetry >= Config.asymmetry_min
           /\ metrics.asymmetry <= Config.asymmetry_max
           /\ Abs(metrics.skewness) <= Config.skewness_max
           /\ metrics.fwhm <= Config.fwhm_absolute_threshold
           /\ \/ metrics.sweep_span <= 0
              \/ metrics.fwhm * 10
                    <= DistortedFraction(metrics, Config) * metrics.sweep_span

-----------------------------------------------------------------------------
(* Further claims about the pipeline *)

\* d[k] on an insertion-ordered dict that holds k
ItemOf(d, k) == d[CHOOSE i \in 1..Len(d) : d[i].key = k].value

(* C14: for every qubit q of the fit dataset, the res_freq and fwhm         *)
(* coordinates at q's position and the frequency and fwhm of               *)
(* FitParameters[q] are the frequency and fwhm the circle fit returned for *)
(* q itself, also when the circle fit lists the qubits in another order    *)
(* than the dataset's qubit dimension.                                     *)
C14_CircleFitAligned ==
    PipelineDone =>
        \A i \in 1..Len(fit.qubit) :
            LET q == fit.qubit[i]
                own == ItemOf(circle_fit, q)
            IN  /\ fit.coords["res_freq"][i] = own.frequency
                /\ fit.coords["fwhm"][i] = own.fwhm
                /\ ItemOf(fit_results, q).frequency = own.frequency
                /\ ItemOf(fit_results, q).fwhm = own.fwhm


\* the metrics _extract_qubit_fit_metrics reads for the qubit at position i
\* that are not finite
NonFiniteRead(f, i) ==
    {v \in {"snr"} : HasVariable(f, v) /\ ValueAt(f, v, i) = Infinity}

(* C15: when a metric read for a qubit is NaN or infinite, the call of      *)
(* _extract_qubit_fit_metrics fails with a MissingFieldError-class error,  *)
(* and _determine_resonator_outcome is never called with a non-finite      *)
(* metric (stated for a qubit none of whose required fields is absent).    *)
C15_NonFiniteRejected ==
    /\ (/\ Attempted
        /\ MissingFields(fit, fitters, qubit_name) = {}
        /\ \E i \in Sel(fit, qubit_name) : NonFiniteRead(fit, i) # {})
            => ~raised.ok /\ raised.type = "MissingFieldError"
    /\ DOMAIN fit_metrics # {} => fit_metrics.snr # Infinity


\* the dataset f reduced to the qubit at position i, and the fitters reduced
\* to the qubit named q
Alone(f, i) ==
    [f EXCEPT !.qubit = <<f.qubit[i]>>,
              !.row = <<f.row[i]>>,
              !.coords = [v \in DOMAIN f.coords |-> <<f.coords[v][i]>>]]

FitterOf(fs, q) == [x \in {q} \cap DOMAIN fs |-> fs[x]]

\* the loop of _extract_and_validate_fit_parameters has started
InLoop == DOMAIN fit # {} /\ pc \in {"loop", "raised", "done", "logged"}

Extent(axis) == Max({a - b : a, b \in axis})

(* C19: the sweep_span _extract_qubit_fit_metrics returns is the maximum    *)
(* minus the minimum of the detuning axis when the fit dataset has one,    *)
(* otherwise that of the full-frequency axis when it has one, and 0 when   *)
(* it has neither; it is the same for every qubit of the dataset and never *)
(* negative.                                                               *)
C19_SweepSpanOfAxis ==
    Extracted =>
        /\ "detuning" \in fit.dims
              => fit_metrics.sweep_span = Extent(fit.detuning)
        /\ ("detuning" \notin fit.dims /\ "full_freq" \in fit.dims)
              => fit_metrics.sweep_span = Extent(fit.full_freq)
        /\ ("detuning" \notin fit.dims /\ "full_freq" \notin fit.dims)
              => fit_metrics.sweep_span = 0
        /\ fit_metrics.sweep_span >= 0
        /\ \A j \in 1..Len(fit.qubit) :
              LET r == _extract_qubit_fit_metrics(fit, fitters, fit.qubit[j])
              IN  r.ok => r.value.sweep_span = fit_metrics.sweep_span

\* both axes present: the detuning axis (2e6) wins over the full-frequency
\* axis (1e7), for the second qubit as for the first
C19_Witness ==
    /\ Extracted /\ pc = "loop"
    /\ fit.dims = {"detuning", "full_freq"}
    /\ qubit_name = "q1"
    /\ fit_metrics.sweep_span = 20
    /\ Extent(fit.full_freq) = 100


(* C20: through extraction and classification, a qubit whose raw            *)
(* opx_bandwidth_artifact flag is true never receives the "OPX bandwidth   *)
(* artifact detected" outcome, and a qubit whose raw flag is false, whose  *)
(* fit does not satisfy rule 1 and whose snr is at least snr_min always    *)
(* receives it, whatever its peak count, shape and width metrics.          *)
C20_ArtifactOutcomeOnFalseFlag ==
    InLoop =>
        \A i \in 1..Len(outcomes) :
            LET raw_flag == fit.row[i].opx_bandwidth_artifact
                quality == fitters[fit.qubit[i]].quality_metrics
            IN  /\ raw_flag => outcomes[i] # Artifact
                /\ (~raw_flag /\ ~GoodFit(quality) /\ fit.row[i].snr >= SNR_MIN)
                      => outcomes[i] = Artifact

\* a raw flag of false with two peaks and a distorted shape
C20_Witness ==
    /\ PipelineDone
    /\ Len(fit.qubit) = 1
    /\ ~fit.row[1].opx_bandwidth_artifact
    /\ fit.row[1].num_peaks = 2 /\ fit.row[1].asymmetry = 100
    /\ fit.row[1].snr = 40
    /\ outcomes = <<Artifact>>
    /\ ItemOf(fit_results, "q0").outcome = Artifact


\* the qubit names of dataset f are pairwise distinct
DistinctQubits(f) ==
    \A i, j \in 1..Len(f.qubit) : f.qubit[i] = f.qubit[j] => i = j

(* C22: the two outputs of _extract_and_validate_fit_parameters agree:      *)
(* when the qubit names of the fit dataset are pairwise distinct, the      *)
(* result map has exactly one FitParameters entry per qubit, its keys are  *)
(* in the order of the qubit dimension, and the outcome stored for each    *)
(* qubit is the value of the outcome coordinate at that qubit's position.  *)
C22_ResultMapMatchesCoordinate ==
    (PipelineDone /\ DistinctQubits(fit)) =>
        /\ Keys(fit_results) = fit.qubit
        /\ Len(fit.coords["outcome"]) = Len(fit.qubit)
        /\ \A i \in 1..Len(fit_results) :
              /\ fit_results[i].value.type = "FitParameters"
              /\ fit_results[i].value.outcome = fit.coords["outcome"][i]

\* two qubits with different outcomes
C22_Witness ==
    /\ PipelineDone /\ DistinctQubits(fit)
    /\ Keys(fit_results) = <<"q0", "q1">>
    /\ fit.coords["outcome"] = <<DistortedPeak, Successful>>
    /\ ItemOf(fit_results, "q0").outcome = DistortedPeak
    /\ ItemOf(fit_results, "q1").outcome = Successful

=============================================================================
